---- MODULE Spec2Model ----
(***************************************************************************)
(* Model of the recommendation core of the book recommendation system:     *)
(*   core/memo.py        content-based scoring behind functools.lru_cache  *)
(*   core/transforms.py  avg_rating_for_book                               *)
(*   core/async_utils.py AsyncRecoEngine (thread pool fan-out / gather)    *)
(*                                                                         *)
(* Numbers that are floats in the program are exact rationals <<n, d>>     *)
(* here (d > 0, lowest terms).  Every score is built by the same           *)
(* expression from a similarity in {0, 1.5, 2, 3.5}/3.5 and an average of  *)
(* small integers, so two scores are equal (ordered) as floats exactly     *)
(* when they are equal (ordered) as rationals.                             *)
(***************************************************************************)
EXTENDS Integers, Sequences, FiniteSets, TLC

(***************************************************************************)
(* Bounds of the model.                                                    *)
(***************************************************************************)
\* lru_cache(maxsize=128), scaled down so that a batch can overflow it.
maxsize == 2
\* Cap on the recommend_batch calls between two cache_clear() calls.
MaxBatches == 2
\* Cap on the calls of the cached function between two cache_clear() calls,
\* where threads call it on their own.
MaxCalls == 5
\* Longest ratings tuple handed to the scoring function on its own.
MaxRatings == 2
\* Calls of recommend_for_user_uncached.
MaxUncached == 1
\* Calls of benchmark_recommendations.
MaxBenchmarks == 2
\* Calls of generate_parallel_report.
MaxReports == 2
\* Cap on the calls of the cached function between two cache_clear() calls,
\* where a thread calls recommend_for_user_uncached.
MaxRacing == 2

(***************************************************************************)
(* Program constants.                                                      *)
(***************************************************************************)
\* book_scores[:10]
TopN == 10
\* `if rating.value >= 4`
HighRating == 4
\* Encoding of a Rating whose value field holds None (malformed data).
NoneValue == 0

(***************************************************************************)
(* Exact rational arithmetic.                                              *)
(***************************************************************************)
RECURSIVE GCD(_, _)
GCD(a, b) == IF b = 0 THEN a ELSE GCD(b, a % b)

Abs(n) == IF n < 0 THEN 0 - n ELSE n

Rat(n, d) ==
    LET g == GCD(Abs(n), d)
    IN  IF n = 0 THEN <<0, 1>> ELSE <<n \div g, d \div g>>

RAdd(x, y) == Rat(x[1] * y[2] + y[1] * x[2], x[2] * y[2])
RMul(x, y) == Rat(x[1] * y[1], x[2] * y[2])
RDiv(x, y) == Rat(x[1] * y[2], x[2] * y[1])
RGt(x, y)  == x[1] * y[2] > y[1] * x[2]

(***************************************************************************)
(* Python sequence helpers.                                                *)
(***************************************************************************)
Min(a, b) == IF a < b THEN a ELSE b
Max(a, b) == IF a > b THEN a ELSE b

\* seq[:n] with Python's meaning of a negative n.
PySlice(seq, n) ==
    LET len == IF n >= 0 THEN Min(n, Len(seq)) ELSE Max(Len(seq) + n, 0)
    IN  SubSeq(seq, 1, len)

Range(seq) == {seq[i] : i \in 1..Len(seq)}

RECURSIVE SumValues(_)
SumValues(rs) ==
    IF rs = <<>> THEN 0 ELSE Head(rs).value + SumValues(Tail(rs))

(***************************************************************************)
(* core/domain.py: frozen dataclasses compare and hash by content.         *)
(***************************************************************************)
Book(id, title, author, genre, year, rating) ==
    [id |-> id, title |-> title, author |-> author, genre |-> genre,
     year |-> year, rating |-> rating]

Rating(user_id, book_id, value) ==
    [user_id |-> user_id, book_id |-> book_id, value |-> value]

(***************************************************************************)
(* core/transforms.py avg_rating_for_book.  AvgRaises: reduce() adds       *)
(* r.value of every rating of the book, which is a TypeError on None.      *)
(***************************************************************************)
BookRatings(ratings, book_id) ==
    SelectSeq(ratings, LAMBDA r : r.book_id = book_id)

AvgRaises(ratings, book_id) ==
    \E r \in Range(BookRatings(ratings, book_id)) : r.value = NoneValue

avg_rating_for_book(ratings, book_id) ==
    LET book_ratings == BookRatings(ratings, book_id)
    IN  IF book_ratings = <<>> THEN <<0, 1>>
        ELSE Rat(SumValues(book_ratings), Len(book_ratings))

(***************************************************************************)
(* core/memo.py calculate_user_profile.                                    *)
(***************************************************************************)
UserRatings(user_id, ratings) ==
    SelectSeq(ratings, LAMBDA r : r.user_id = user_id)

ProfileNeedsRatings(user_id, ratings) ==
    \/ UserRatings(user_id, ratings) = <<>>
    \/ \E r \in Range(UserRatings(user_id, ratings)) : r.value = NoneValue

\* `rating.value >= 4` is a TypeError when the value is None.
ProfileRaises(user_id, ratings) ==
    \E r \in Range(UserRatings(user_id, ratings)) : r.value = NoneValue

\* next((b for b in books if b.id == rating.book_id), None): the first match.
FirstBook(books, book_id) ==
    LET hits_at == {i \in 1..Len(books) : books[i].id = book_id}
    IN  IF hits_at = {} THEN {}
        ELSE {books[CHOOSE i \in hits_at : \A j \in hits_at : i <= j]}

\* Books the user's high ratings point at.
LikedBooks(user_id, ratings, books) ==
    UNION {FirstBook(books, r.book_id) :
              r \in {x \in Range(UserRatings(user_id, ratings)) :
                         x.value >= HighRating}}

RatedByHighOnly(user_id, ratings) ==
    LET high == SelectSeq(UserRatings(user_id, ratings),
                          LAMBDA r : r.value >= HighRating)
    IN  [i \in 1..Len(high) |-> high[i].book_id]

RatedBooks(user_id, ratings) ==
    LET user_ratings == UserRatings(user_id, ratings)
    IN  [i \in 1..Len(user_ratings) |-> user_ratings[i].book_id]

calculate_user_profile(user_id, ratings, books) ==
    [preferred_authors |-> {b.author : b \in LikedBooks(user_id, ratings, books)},
     preferred_genres  |-> {b.genre : b \in LikedBooks(user_id, ratings, books)},
     rated_books       |-> RatedBooks(user_id, ratings)]

(***************************************************************************)
(* core/memo.py calculate_book_similarity: (2.0 + 1.5) / 3.5, in tenths.   *)
(***************************************************************************)
SimilarityNotNormalised(book, user_profile) ==
    LET a == IF book.author \in user_profile.preferred_authors THEN 20 ELSE 0
        g == IF book.genre \in user_profile.preferred_genres THEN 15 ELSE 0
    IN  Rat(a + g, 20)

calculate_book_similarity(book, user_profile) ==
    LET a == IF book.author \in user_profile.preferred_authors THEN 20 ELSE 0
        g == IF book.genre \in user_profile.preferred_genres THEN 15 ELSE 0
    IN  Rat(a + g, 35)

(***************************************************************************)
(* core/memo.py recommend_for_user_cached, the body behind the cache.      *)
(***************************************************************************)
UnratedBooks(user_id, ratings, books) ==
    LET user_profile == calculate_user_profile(user_id, ratings, books)
    IN  SelectSeq(books, LAMBDA b : b.id \notin Range(user_profile.rated_books))

ScoreFromBookRating(book, user_profile, ratings) ==
    RAdd(RMul(calculate_book_similarity(book, user_profile), <<7, 10>>),
         RMul(RDiv(Rat(book.rating, 10), <<5, 1>>), <<3, 10>>))

final_score(book, user_profile, ratings) ==
    RAdd(RMul(calculate_book_similarity(book, user_profile), <<7, 10>>),
         RMul(RDiv(avg_rating_for_book(ratings, book.id), <<5, 1>>), <<3, 10>>))

BookScores(user_id, ratings, books) ==
    LET user_profile == calculate_user_profile(user_id, ratings, books)
        unrated == UnratedBooks(user_id, ratings, books)
    IN  [i \in 1..Len(unrated) |->
            <<unrated[i].id, unrated[i].title, unrated[i].author,
              unrated[i].genre, final_score(unrated[i], user_profile, ratings)>>]

RECURSIVE InsertBeforeEqual(_, _)
InsertBeforeEqual(x, sorted) ==
    IF sorted = <<>> THEN <<x>>
    ELSE IF ~RGt(Head(sorted)[5], x[5]) THEN <<x>> \o sorted
    ELSE <<Head(sorted)>> \o InsertBeforeEqual(x, Tail(sorted))

\* list.sort(key=score, reverse=True): stable, equal scores keep their order.
RECURSIVE InsertByScore(_, _)
InsertByScore(x, sorted) ==
    IF sorted = <<>> THEN <<x>>
    ELSE IF RGt(x[5], Head(sorted)[5]) THEN <<x>> \o sorted
    ELSE <<Head(sorted)>> \o InsertByScore(x, Tail(sorted))

RECURSIVE SortByScore(_)
SortByScore(seq) ==
    IF seq = <<>> THEN <<>>
    ELSE InsertByScore(seq[Len(seq)], SortByScore(SubSeq(seq, 1, Len(seq) - 1)))

\* TRUE when the body raises: the profile loop or an average meets a None.
ScoringRaises(user_id, ratings, books) ==
    \/ ProfileRaises(user_id, ratings)
    \/ \E b \in Range(UnratedBooks(user_id, ratings, books)) :
           AvgRaises(ratings, b.id)

RecommendAll(user_id, ratings, books) ==
    SortByScore(BookScores(user_id, ratings, books))

recommend_body(user_id, ratings, books) ==
    PySlice(SortByScore(BookScores(user_id, ratings, books)), TopN)

(***************************************************************************)
(* core/async_utils.py _generate_reason and the formatting loop of         *)
(* _recommend_single_user.                                                 *)
(***************************************************************************)
_generate_reason(score) ==
    IF RGt(score, <<4, 5>>) THEN "Highly matches your reading preferences"
    ELSE IF RGt(score, <<3, 5>>) THEN "Matches your favorite book types"
    ELSE IF RGt(score, <<2, 5>>) THEN "Similar to books you like"
    ELSE "Similar readers also like"

Recommendation(t) ==
    [book_id |-> t[1], title |-> t[2], author |-> t[3], genre |-> t[4],
     score |-> t[5], reason |-> _generate_reason(t[5])]

FormatTop(raw_recommendations, k) ==
    LET top == PySlice(raw_recommendations, k)
    IN  [i \in 1..Len(top) |-> Recommendation(top[i])]


(***************************************************************************)
(* Data the engine is driven with.  Datasets[d] is the content of the      *)
(* (ratings, books) tuples of object d: objects 1 and 2 are distinct       *)
(* tuples with equal content, object 3 holds malformed ratings for which   *)
(* the scoring of u1 and u3 raises and the scoring of u2 does not.         *)
(***************************************************************************)
B1 == Book("1", "A", "Smith", "Sci-Fi", 2020, 45)
B2 == Book("2", "B", "Jones", "Fantasy", 2019, 40)
B3 == Book("3", "C", "Smith", "Fantasy", 2021, 35)

CatalogA == <<B1, B2, B3>>
RatingsA == <<Rating("u1", "1", 5), Rating("u2", "2", 4), Rating("u2", "1", 2)>>
RatingsBad == <<Rating("u1", "1", NoneValue), Rating("u2", "1", 5)>>

Datasets ==
    <<[ratings |-> RatingsA, books |-> CatalogA],
      [ratings |-> RatingsA, books |-> CatalogA],
      [ratings |-> RatingsBad, books |-> CatalogA]>>

DatasetIds == 1..Len(Datasets)

UserIdLists ==
    {<<>>, <<"u2", "u1">>, <<"u1", "u1">>, <<"u1", "u2", "u3">>}


Ks == {1, 2}

\* timeout: <<>> is None, <<t>> is the number t.
Timeouts == {<<>>, <<0>>, <<1>>}

\* The calls <<user_ids, dataset object, k, timeout>> the engine is driven
\* with: every list and every timeout on object 1, two users with either k
\* on the content-equal objects 1 and 2, and the malformed object 3.
Requests ==
    (UserIdLists \X {1} \X {2} \X Timeouts)
        \cup ({<<"u2", "u1">>} \X {1, 2} \X Ks \X {<<>>})
        \cup ({<<"u2", "u1">>, <<"u1", "u2", "u3">>} \X {3} \X {2} \X {<<>>})

\* The calls <<user_ids, dataset object, k, timeout>> that
\* benchmark_recommendations makes of recommend_batch: two and three
\* users, a user twice, a list with an unhashable id.
BenchLists ==
    {<<>>, <<"u1", "u2">>, <<"u2", "u1", "u3">>, <<"u1", "u1">>, <<"u1", "[x]">>}

BenchRequests == BenchLists \X {1, 3} \X {2} \X {<<>>}

\* The calls that generate_parallel_report makes of recommend_batch: no
\* user, one user, two, and three of whom u3 has no rating.
ReportLists == {<<>>, <<"u2">>, <<"u2", "u1">>, <<"u1", "u2", "u3">>}

ReportRequests == ReportLists \X {1, 3} \X {2} \X {<<>>}

\* AsyncRecoEngine(max_workers=...): the values an engine is constructed with.
WorkerCounts == {1, 2}

ShutCallers == {"t1"}

(***************************************************************************)
(* State.                                                                  *)
(***************************************************************************)
VARIABLES
    cache,           \* lru_cache entries, least recently used first
    hits, misses,    \* lru_cache counters
    calls,           \* history: calls of the cached function since the counters were zero
    started,         \* history: recommend_batch calls since the cache was cleared
    evicted,         \* history: what the latest cache operation evicted
    cleared,         \* history: the latest cache_clear() and the call after it
    max_workers,     \* AsyncRecoEngine.max_workers
    _shutdown,       \* AsyncRecoEngine._shutdown
    executor_shut,   \* ThreadPoolExecutor._shutdown
    pool_shutdowns,  \* history: number of executor.shutdown() calls
    shut_pc,         \* position of each shutdown() caller
    tasks,           \* work items in the executor, in submission order
    batch,           \* the recommend_batch call: its frame and its outcome
    metrics,         \* what get_performance_metrics() has just returned
    health,          \* what health_check() has just returned
    score_in,        \* scoring on its own: the arguments
    score_out,       \* scoring on its own: the outcome
    uncached,        \* the recommend_for_user_uncached call: its frame and its outcome
    bench,           \* the benchmark_recommendations call: its frame and its outcome
    service,         \* AsyncRecoService: performance_history and the report call
    agg_in,          \* report aggregation on its own: the arguments
    agg_out          \* report aggregation on its own: the outcome

vars == <<cache, hits, misses, calls, started, evicted, cleared, max_workers, _shutdown,
          executor_shut, pool_shutdowns, shut_pc, tasks, batch,
          metrics, health, score_in, score_out, uncached, bench,
          service, agg_in, agg_out>>

cacheVars == <<cache, hits, misses, calls, evicted, cleared>>
engineVars == <<max_workers, _shutdown, executor_shut, pool_shutdowns, shut_pc>>
scoreVars == <<score_in, score_out>>
serviceVars == <<service, agg_in, agg_out>>
callerVars == <<uncached, bench, service, agg_in, agg_out>>

\* The value a query returned is consumed by its caller at once.
Consumed == metrics' = <<>> /\ health' = <<>>

\* No call of recommend_for_user_uncached has been made.
NoUncached ==
    [pc |-> "idle", user_id |-> "", ds |-> 1, value |-> <<>>,
     alone |-> FALSE, before |-> 0, after |-> <<>>, made |-> 0]

\* No call of benchmark_recommendations has been made.  History fields:
\* created (the call has constructed an engine), quiet (nobody else touched
\* the cache from the start of the parallel pass to the end of the serial
\* one), serial_hits, serial_misses and scored (the hits, the misses and
\* the runs of the scoring body of the serial pass), made (the calls so
\* far).
NoBench ==
    [pc |-> "idle", user_ids |-> <<>>, ds |-> 1, k |-> 1, pos |-> 0,
     serial_results |-> <<>>, status |-> "none", results_consistent |-> FALSE,
     users_processed |-> 0, created |-> FALSE, quiet |-> FALSE,
     serial_hits |-> 0, serial_misses |-> 0, scored |-> 0, made |-> 0]

\* AsyncRecoService.__init__: performance_history = [].  The other fields
\* are the frame of the generate_parallel_report call, the list a caller got
\* from get_performance_history (history_copy, with shared telling whether
\* it is the service's own list object) and history: made (the calls so
\* far), returned (the numbers of the calls that returned a report since
\* the latest clear_history, in the order they returned) and emptied (the
\* caller has emptied the list it got).
NoService ==
    [performance_history |-> <<>>, pc |-> "idle", user_ids |-> <<>>, ds |-> 1,
     k |-> 1, error |-> "", history_copy |-> <<>>, shared |-> FALSE,
     made |-> 0, returned |-> <<>>, emptied |-> FALSE]

\* No aggregation function has been called on its own.
NoAgg == [pc |-> "off"]

CallersIdle ==
    /\ uncached = NoUncached
    /\ bench = NoBench
    /\ service = NoService
    /\ agg_in = NoAgg
    /\ agg_out = NoAgg

(***************************************************************************)
(* functools.lru_cache around recommend_for_user_cached.  The wrapper      *)
(* looks the key up and counts a hit or a miss in one uninterrupted step;  *)
(* the body then runs unlocked; storing the result is a second             *)
(* uninterrupted step.  A call that raises stores nothing.                 *)
(* Every entry carries two history fields: last, the rank of its latest    *)
(* access (insertion or hit) among the entries, and born, the rank of its  *)
(* insertion; 1 is the oldest.                                             *)
(***************************************************************************)
\* A user id that cannot be hashed (a list): lru_cache raises TypeError
\* while it builds the key, before the lookup, and a dict refuses it as a
\* key.
UnhashableId == "[x]"

Hashable(user_id) == user_id # UnhashableId

\* Tuples of frozen dataclasses hash and compare by content.
SameContent(ds) ==
    CHOOSE d \in DatasetIds :
        /\ Datasets[d] = Datasets[ds]
        /\ \A e \in DatasetIds : Datasets[e] = Datasets[ds] => d <= e

KeyIgnoringUser(user_id, ds) == <<"*", SameContent(ds)>>

KeyByIdentity(user_id, ds) == <<user_id, ds>>

KeyOf(user_id, ds) == <<user_id, SameContent(ds)>>

CachedKeys == {cache[i].key : i \in 1..Len(cache)}

EntryOf(key) == cache[CHOOSE i \in 1..Len(cache) : cache[i].key = key]

Without(key) == SelectSeq(cache, LAMBDA e : e.key # key)

Ranked(c) ==
    [i \in 1..Len(c) |->
        [c[i] EXCEPT
            !.last = Cardinality({j \in 1..Len(c) : c[j].last < c[i].last}) + 1,
            !.born = Cardinality({j \in 1..Len(c) : c[j].born < c[i].born}) + 1]]

Accessed(entry) == [entry EXCEPT !.last = maxsize + 2]

HitKeepsPlace(key) ==
    Ranked([i \in 1..Len(cache) |->
               IF cache[i].key = key THEN Accessed(cache[i]) ELSE cache[i]])

\* A hit moves the link to the most-recently-used end.
HitRefresh(key) ==
    Ranked(Without(key) \o <<Accessed(EntryOf(key))>>)

RoomForOneMore(n) == n <= maxsize

HasRoom(n) == n < maxsize

StoreDropsResult(key, result) == cache

\* Storing a result: the key may have been stored meanwhile (left alone);
\* otherwise a full cache drops its oldest link first.
Store(key, result) ==
    LET entry == Accessed([key |-> key, result |-> result, last |-> 0,
                           born |-> maxsize + 2])
    IN  IF key \in CachedKeys THEN cache
        ELSE IF HasRoom(Len(cache)) THEN Ranked(Append(cache, entry))
        ELSE Ranked(Append(Tail(cache), entry))

\* History: the key that storing evicts, and whether an entry inserted
\* before the evicted one stays.
Victim(key) ==
    IF key \notin CachedKeys /\ ~HasRoom(Len(cache)) /\ cache # <<>>
    THEN <<[key |-> Head(cache).key,
            older_stays |-> \E i \in 2..Len(cache) :
                                cache[i].born < Head(cache).born]>>
    ELSE <<>>

\* History: cleared holds what cache_clear() found until the next cache
\* operation; when that is the lookup of a call made with no other call in
\* flight, it then holds that call's key until the call ends.
AfterLookup(key) ==
    IF cleared # <<>> /\ cleared[1].phase = "cleared" /\ cleared[1].inflight = 0
    THEN <<[phase |-> "first", key |-> key,
            was_cached |-> key \in cleared[1].keys]>>
    ELSE <<>>

MissNotCounted(m) == m

MissCounted(m) == m + 1

(***************************************************************************)
(* Work items of the ThreadPoolExecutor.  live: the asyncio future of the  *)
(* item is still awaited by the gather of the current batch.  fin: the     *)
(* rank at which the item completed among the items of its batch.          *)
(***************************************************************************)
Task(idx, user_id, ds, k) ==
    [live |-> TRUE, idx |-> idx, user_id |-> user_id, ds |-> ds, k |-> k,
     st |-> "pending", result |-> <<>>, raised |-> FALSE, fin |-> 0]

TaskIdx == 1..Len(tasks)

Running == {i \in TaskIdx : tasks[i].st = "computing"}
Pending == {i \in TaskIdx : tasks[i].st = "pending"}
LiveDone == {i \in TaskIdx : tasks[i].live /\ tasks[i].st = "done"}

\* Calls of the cached function that submitted work will still make.
CallsToCome == Cardinality(Pending)

RemoveAt(seq, i) == SubSeq(seq, 1, i - 1) \o SubSeq(seq, i + 1, Len(seq))

Orphan(t) == [t EXCEPT !.live = FALSE, !.idx = 0, !.k = 1]

\* The work items of the batch that are still queued, and the n oldest of
\* them.
QueuedLive == {i \in Pending : tasks[i].live}

OldestQueued(n) ==
    {i \in QueuedLive : Cardinality({j \in QueuedLive : j < i}) < n}

\* Worker threads that hold no work item: an item a worker has taken from
\* the queue stays "pending" until the worker calls the cached function.
IdleWorkers ==
    max_workers - Cardinality(Running)
                - Cardinality({i \in Pending : ~tasks[i].live})

CancelStopsRunning(n) == <<>>

\* A cancelled gather cancels its futures: a work item still in the queue
\* is dropped by the pool; a running one, and each of the n items that a
\* worker has taken from the queue but that has not called the cached
\* function yet, keeps running with nobody awaiting it.
AfterCancel(n) ==
    LET keep == {i \in TaskIdx : tasks[i].st = "computing"
                                    \/ (tasks[i].st = "pending" /\ ~tasks[i].live)}
                    \cup OldestQueued(n)
        kept == SelectSeq([i \in TaskIdx |-> [at |-> i, t |-> tasks[i]]],
                          LAMBDA x : x.at \in keep)
    IN  [i \in 1..Len(kept) |-> Orphan(kept[i].t)]

\* The coroutine left by an exception of submit(): nothing is cancelled.
AfterAbandon ==
    LET kept == SelectSeq(tasks, LAMBDA t : t.st # "done")
    IN  [i \in 1..Len(kept) |-> Orphan(kept[i])]

(***************************************************************************)
(* AsyncRecoEngine._recommend_single_user: the try block formats the top   *)
(* k, the except block turns any Exception into [].                        *)
(***************************************************************************)
_recommend_single_user(raw_recommendations, k, raised) ==
    IF raised THEN [exc |-> FALSE, value |-> <<>>]
    ELSE [exc |-> FALSE, value |-> FormatTop(raw_recommendations, k)]

(***************************************************************************)
(* AsyncRecoEngine.recommend_batch.  The frame keeps history fields:      *)
(* deadline_missed (the timeout elapsed with work outstanding),            *)
(* quiet (since the call started nobody else touched the cache), repeat    *)
(* (the previous call returned, was quiet and had content-equal inputs;    *)
(* before and before_ds then hold what it returned and its dataset         *)
(* object), hits0 and misses0 (the counters when the call started), order  *)
(* (the rank at which the work item of each position completed),           *)
(* size_then and misses_then (the cache's size and miss count when the     *)
(* call raised the timeout error).                                         *)
(***************************************************************************)
IdleBatch ==
    [pc |-> "idle", user_ids |-> <<>>, ds |-> 1, k |-> 1, timeout |-> <<>>,
     submitted |-> 0, results |-> <<>>, error |-> "none",
     successful_users |-> 0, failed_users |-> 0,
     deadline_missed |-> FALSE, quiet |-> TRUE, repeat |-> FALSE,
     before |-> <<>>, before_ds |-> 0, hits0 |-> 0, misses0 |-> 0,
     order |-> <<>>, size_then |-> 0, misses_then |-> 0]

InFlight == batch.pc \in {"submitting", "waiting"}

\* What is left of the frame once the call has raised.
Raised(error) ==
    [IdleBatch EXCEPT !.pc = "raised", !.error = error,
                      !.user_ids = batch.user_ids,
                      !.timeout = batch.timeout,
                      !.deadline_missed = batch.deadline_missed,
                      !.quiet = FALSE]

\* `if timeout:`
Truthy(timeout) == timeout # <<>> /\ timeout[1] # 0

EmptyIsAnError(shutdown, user_ids) ==
    IF shutdown \/ user_ids = <<>> THEN "shutdown" ELSE "submit"

EmptyCheckFirst(shutdown, user_ids) ==
    IF user_ids = <<>> THEN "empty"
    ELSE IF shutdown THEN "shutdown"
    ELSE "submit"

\* Lines 80-85: the shutdown check, then the empty check.
Entry(shutdown, user_ids) ==
    IF shutdown THEN "shutdown"
    ELSE IF user_ids = <<>> THEN "empty"
    ELSE "submit"

SameInputs(user_ids, ds, k) ==
    /\ batch.pc = "returned"
    /\ batch.quiet
    /\ batch.user_ids = user_ids
    /\ Datasets[batch.ds] = Datasets[ds]
    /\ batch.k = k

StartBatch(user_ids, ds, k, timeout) ==
    /\ ~InFlight
    /\ <<user_ids, ds, k, timeout>> \in Requests \cup BenchRequests \cup ReportRequests
    /\ started < MaxBatches
    /\ started' = started + 1
    /\ LET entry == Entry(_shutdown, user_ids)
           repeat == SameInputs(user_ids, ds, k)
           frame == [IdleBatch EXCEPT
                       !.user_ids = user_ids, !.ds = ds, !.k = k,
                       !.timeout = timeout,
                       !.repeat = repeat,
                       !.before = IF repeat THEN batch.results ELSE <<>>,
                       !.before_ds = IF repeat THEN batch.ds ELSE 0,
                       !.hits0 = hits, !.misses0 = misses]
       IN  batch' =
             CASE entry = "shutdown" ->
                    [IdleBatch EXCEPT !.pc = "raised", !.error = "shutdown",
                                      !.user_ids = user_ids, !.quiet = FALSE]
               [] entry = "empty" ->
                    [frame EXCEPT !.pc = "returned"]
               [] OTHER ->
                    [frame EXCEPT !.pc = "submitting",
                                  !.deadline_missed = (timeout = <<0>>)]
    /\ Consumed
    /\ UNCHANGED <<cacheVars, engineVars, tasks, scoreVars, callerVars>>

\* One loop.run_in_executor(self.executor, recommend_func, user_id).
Submit ==
    /\ batch.pc = "submitting"
    /\ LET i == batch.submitted + 1
       IN  IF executor_shut
           THEN /\ batch' = Raised("executor")
                /\ tasks' = AfterAbandon
           ELSE /\ tasks' = Append(tasks, Task(i, batch.user_ids[i], batch.ds, batch.k))
                /\ batch' = [batch EXCEPT
                       !.submitted = i,
                       !.pc = IF i = Len(batch.user_ids) THEN "waiting"
                              ELSE "submitting"]
    /\ Consumed
    /\ UNCHANGED <<started, cacheVars, engineVars, scoreVars, callerVars>>

Finished(t, out) ==
    [t EXCEPT !.st = "done", !.result = out.value, !.raised = out.exc,
              !.fin = Cardinality(LiveDone) + 1]

WorkerAlwaysIdle(running, workers) == TRUE

\* ThreadPoolExecutor(max_workers=...): a queued item is taken only by one
\* of the pool's max_workers threads, each running one item at a time.
WorkerIdle(running, workers) == running < workers

\* A worker thread takes the oldest pending item and calls the cached
\* function: lookup and counter update.
TaskStart(i) ==
    /\ i \in Pending
    /\ \A j \in Pending : i <= j
    /\ WorkerIdle(Cardinality(Running), max_workers)
    /\ LET t == tasks[i]
           key == KeyOf(t.user_id, t.ds)
           out == _recommend_single_user(EntryOf(key).result, t.k, FALSE)
           none == _recommend_single_user(<<>>, t.k, TRUE)
       IN  /\ IF ~Hashable(t.user_id)
              THEN /\ UNCHANGED cacheVars
                   /\ tasks' = IF t.live
                               THEN [tasks EXCEPT ![i] = Finished(t, none)]
                               ELSE RemoveAt(tasks, i)
              ELSE /\ calls' = calls + 1
                   /\ evicted' = <<>>
                   /\ cleared' = AfterLookup(key)
                   /\ IF key \in CachedKeys
                      THEN /\ cache' = HitRefresh(key)
                           /\ hits' = hits + 1
                           /\ misses' = misses
                           /\ tasks' = IF t.live
                                       THEN [tasks EXCEPT ![i] = Finished(t, out)]
                                       ELSE RemoveAt(tasks, i)
                      ELSE /\ cache' = cache
                           /\ hits' = hits
                           /\ misses' = MissCounted(misses)
                           /\ tasks' = [tasks EXCEPT ![i] = [t EXCEPT !.st = "computing"]]
           /\ batch' = IF t.live THEN batch ELSE [batch EXCEPT !.quiet = FALSE]
    /\ Consumed
    /\ UNCHANGED <<started, engineVars, scoreVars, callerVars>>

\* What the body of recommend_for_user_cached does for each user on each
\* dataset: it raises, or it returns raw.
Scoring ==
    [user_id \in {"u1", "u2", "u3"} |->
        [ds \in DatasetIds |->
            LET d == Datasets[ds]
                raised == ScoringRaises(user_id, d.ratings, d.books)
            IN  [raised |-> raised,
                 raw |-> IF raised THEN <<>>
                         ELSE recommend_body(user_id, d.ratings, d.books)]]]

\* The body returns (or raises); the wrapper stores the result; the rest of
\* _recommend_single_user formats it.
TaskFinish(i) ==
    /\ i \in Running
    /\ LET t == tasks[i]
           key == KeyOf(t.user_id, t.ds)
           raised == Scoring[t.user_id][t.ds].raised
           raw == Scoring[t.user_id][t.ds].raw
           out == _recommend_single_user(raw, t.k, raised)
       IN  /\ IF raised
              THEN /\ cache' = cache
                   /\ evicted' = <<>>
              ELSE /\ cache' = Store(key, raw)
                   /\ evicted' = Victim(key)
           /\ tasks' = IF t.live
                       THEN [tasks EXCEPT ![i] = Finished(t, out)]
                       ELSE RemoveAt(tasks, i)
           /\ batch' = IF t.live THEN batch ELSE [batch EXCEPT !.quiet = FALSE]
    /\ Consumed
    /\ cleared' = <<>>
    /\ UNCHANGED <<started, hits, misses, calls, engineVars, scoreVars, callerVars>>

\* asyncio.gather(*tasks, return_exceptions=True): results in the order of
\* the awaitables, whatever the order of completion.
LiveTask(n) == tasks[CHOOSE i \in TaskIdx : tasks[i].live /\ tasks[i].idx = n]

GatherInCompletionOrder ==
    [n \in 1..Len(batch.user_ids) |->
        tasks[CHOOSE i \in TaskIdx : tasks[i].live /\ tasks[i].fin = n]]

Gather ==
    [n \in 1..Len(batch.user_ids) |-> LiveTask(n)]

\* for user_id, result in zip(user_ids, results): a later pair overwrites.
LastIndexOf(user_ids, u) ==
    CHOOSE i \in 1..Len(user_ids) :
        user_ids[i] = u /\ \A j \in 1..Len(user_ids) : user_ids[j] = u => j <= i

user_recommendations(user_ids, results) ==
    [u \in Range(user_ids) |->
        LET r == results[LastIndexOf(user_ids, u)]
        IN  IF r.raised THEN <<>> ELSE r.result]

FailedUsers(results) ==
    Cardinality({i \in 1..Len(results) : results[i].raised})

GatherDone ==
    /\ batch.pc = "waiting"
    /\ Cardinality(LiveDone) = Len(batch.user_ids)
    /\ LET results == Gather
       IN  batch' =
             IF \E n \in 1..Len(batch.user_ids) : ~Hashable(batch.user_ids[n])
             THEN Raised("unhashable")
             ELSE [batch EXCEPT
               !.pc = "returned",
               !.order = [n \in 1..Len(results) |-> results[n].fin],
               !.results = user_recommendations(batch.user_ids, results),
               !.failed_users = FailedUsers(results),
               !.successful_users = Len(results) - FailedUsers(results)]
    /\ tasks' = SelectSeq(tasks, LAMBDA t : ~t.live)
    /\ Consumed
    /\ UNCHANGED <<started, cacheVars, engineVars, scoreVars, callerVars>>

\* asyncio.wait_for(..., timeout) expires: the gather is cancelled and
\* TimeoutError is re-raised by recommend_batch.
TimeoutFire(n) ==
    /\ batch.pc = "waiting"
    /\ Truthy(batch.timeout)
    /\ Cardinality(LiveDone) < Len(batch.user_ids)
    /\ n <= Cardinality(QueuedLive)
    /\ n <= IdleWorkers
    /\ batch' = [Raised("timeout") EXCEPT !.deadline_missed = TRUE,
                                          !.size_then = Len(cache),
                                          !.misses_then = misses]
    /\ tasks' = AfterCancel(n)
    /\ Consumed
    /\ UNCHANGED <<started, cacheVars, engineVars, scoreVars, callerVars>>

(***************************************************************************)
(* core/memo.py clear_cache: lru_cache.cache_clear() empties the cache     *)
(* and zeroes both counters.                                               *)
(***************************************************************************)
CounterKept(n) == n

\* cache_clear() sets hits = misses = 0.
CounterAfterClear(n) == 0

ClearKeepsNewest(c) == IF c = <<>> THEN c ELSE <<c[Len(c)]>>

\* cache_clear() unlinks every entry.
CacheAfterClear(c) == <<>>

\* Calls of the cached function that are running its body.
Computing ==
    Cardinality(Running) + (IF uncached.pc = "computing" THEN 1 ELSE 0)

\* recommend_for_user_cached.cache_clear()
ClearEffect ==
    /\ cache' = CacheAfterClear(cache)
    /\ hits' = CounterAfterClear(hits)
    /\ misses' = CounterAfterClear(misses)
    /\ calls' = 0
    /\ started' = 0
    /\ evicted' = <<>>
    /\ cleared' = <<[phase |-> "cleared", hits |-> hits, misses |-> misses,
                     keys |-> CachedKeys, inflight |-> Computing]>>

ClearCache ==
    /\ ClearEffect
    /\ batch' = [batch EXCEPT !.quiet = FALSE]
    /\ Consumed
    /\ UNCHANGED <<engineVars, tasks, scoreVars, callerVars>>

(***************************************************************************)
(* core/memo.py recommend_for_user_uncached, called from a thread of its   *)
(* own: cache_clear(), then the cached function (lookup, body, store).     *)
(* History: batch.quiet is reset by the call's cache_clear(), so that      *)
(* alone tells whether nobody else touched the cache during the call;      *)
(* before holds the cache's size as the call found it, after the cache's   *)
(* keys, size and counters as the call left them; made counts the calls.   *)
(***************************************************************************)
Snapshot(c, h, m) ==
    [keys |-> {c[i].key : i \in 1..Len(c)}, size |-> Len(c),
     hits |-> h, misses |-> m]

\* Line 90.
UncachedClear(user_id, ds) ==
    /\ uncached.pc \in {"idle", "returned", "raised"}
    /\ uncached.made < MaxUncached
    /\ ClearEffect
    /\ uncached' = [NoUncached EXCEPT !.pc = "cleared", !.user_id = user_id,
                                      !.ds = ds,
                                      !.before = Len(cache),
                                      !.made = uncached.made + 1]
    /\ batch' = [batch EXCEPT !.quiet = TRUE]
    /\ Consumed
    /\ UNCHANGED <<engineVars, tasks, scoreVars, bench, serviceVars>>

\* Line 91: the wrapper's lookup.
UncachedLookup ==
    /\ uncached.pc = "cleared"
    /\ LET key == KeyOf(uncached.user_id, uncached.ds)
       IN  /\ calls' = calls + 1
           /\ evicted' = <<>>
           /\ cleared' = AfterLookup(key)
           /\ IF key \in CachedKeys
              THEN /\ cache' = HitRefresh(key)
                   /\ hits' = hits + 1
                   /\ misses' = misses
                   /\ uncached' = [uncached EXCEPT
                          !.pc = "returned",
                          !.value = EntryOf(key).result,
                          !.alone = batch.quiet,
                          !.after = Snapshot(cache', hits', misses')]
              ELSE /\ cache' = cache
                   /\ hits' = hits
                   /\ misses' = MissCounted(misses)
                   /\ uncached' = [uncached EXCEPT !.pc = "computing"]
    /\ Consumed
    /\ UNCHANGED <<started, engineVars, tasks, batch, scoreVars, bench, serviceVars>>

\* Line 91: the body returns (or raises) and the wrapper stores the result.
UncachedFinish ==
    /\ uncached.pc = "computing"
    /\ LET key == KeyOf(uncached.user_id, uncached.ds)
           out == Scoring[uncached.user_id][uncached.ds]
       IN  /\ IF out.raised
              THEN /\ cache' = cache
                   /\ evicted' = <<>>
              ELSE /\ cache' = Store(key, out.raw)
                   /\ evicted' = Victim(key)
           /\ uncached' = [uncached EXCEPT
                  !.pc = IF out.raised THEN "raised" ELSE "returned",
                  !.value = out.raw,
                  !.alone = batch.quiet,
                  !.after = Snapshot(cache', hits, misses)]
    /\ cleared' = <<>>
    /\ Consumed
    /\ UNCHANGED <<started, hits, misses, calls, engineVars, tasks, batch, scoreVars, bench, serviceVars>>

(***************************************************************************)
(* AsyncRecoEngine.shutdown, called from a thread c.  Between the test of  *)
(* _shutdown and its assignment the caller is blocked in                   *)
(* executor.shutdown(wait=True) until every work item has run.             *)
(***************************************************************************)
AlwaysShutsPool(shutdown) == TRUE

\* `if not self._shutdown:`
ShutsPool(shutdown) == ~shutdown

CancelsQueued(queue) == SelectSeq(queue, LAMBDA t : t.st # "pending")

\* executor.shutdown(wait=True), without cancel_futures: the items in the
\* pool's queue stay there and are run before the workers exit.
QueueAfterShutdown(queue) == queue

ShutdownBegin(c) ==
    /\ shut_pc[c] \in {"idle", "noop"}
    /\ IF ShutsPool(_shutdown)
       THEN /\ executor_shut' = TRUE
            /\ pool_shutdowns' = pool_shutdowns + 1
            /\ shut_pc' = [shut_pc EXCEPT ![c] = "draining"]
            /\ tasks' = QueueAfterShutdown(tasks)
       ELSE /\ shut_pc' = [shut_pc EXCEPT ![c] = "noop"]
            /\ UNCHANGED <<executor_shut, pool_shutdowns, tasks>>
    /\ Consumed
    /\ UNCHANGED <<started, cacheVars, max_workers, _shutdown, batch, scoreVars, callerVars>>

ShutdownFinish(c) ==
    /\ shut_pc[c] = "draining"
    /\ Pending = {} /\ Running = {}
    /\ _shutdown' = TRUE
    /\ shut_pc' = [shut_pc EXCEPT ![c] = "idle"]
    /\ Consumed
    /\ UNCHANGED <<started, cacheVars, max_workers, executor_shut, pool_shutdowns,
                   tasks, batch, scoreVars, callerVars>>

(***************************************************************************)
(* benchmark_recommendations, a coroutine: it constructs an engine, awaits *)
(* recommend_batch on it, calls the cached function for each user in turn, *)
(* compares the lengths of the two passes' lists and, in its finally       *)
(* clause, shuts the engine down.  The engine of the model is the engine   *)
(* of the latest call.                                                     *)
(***************************************************************************)
ReleasedOnSuccess(status) == status = "completed"

\* finally: runs after the try block's return and after the except block's.
ReleasedOn(status) == TRUE

\* Lines 451-466.
BenchCall(user_ids, ds, k, workers) ==
    /\ bench.pc \in {"idle", "returned"}
    /\ bench.made < MaxBenchmarks
    /\ <<user_ids, ds, k, <<>>>> \in BenchRequests
    /\ ~InFlight
    /\ tasks = <<>>
    /\ LET frame == [NoBench EXCEPT !.user_ids = user_ids, !.ds = ds, !.k = k,
                                    !.made = bench.made + 1]
       IN  IF user_ids = <<>>
           THEN /\ bench' = [frame EXCEPT !.pc = "returned", !.status = "skipped"]
                /\ UNCHANGED <<engineVars, batch>>
           ELSE /\ bench' = [frame EXCEPT !.pc = "parallel", !.created = TRUE]
                /\ max_workers' = workers
                /\ _shutdown' = FALSE
                /\ executor_shut' = FALSE
                /\ pool_shutdowns' = 0
                /\ shut_pc' = [c \in ShutCallers |-> "idle"]
                /\ batch' = IdleBatch
    /\ Consumed
    /\ UNCHANGED <<started, cacheVars, tasks, scoreVars, uncached, serviceVars>>

\* Line 471: the call of recommend_batch.
BenchParallel ==
    /\ bench.pc = "parallel"
    /\ batch.pc = "idle"
    /\ StartBatch(bench.user_ids, bench.ds, bench.k, <<>>)

\* Lines 471-476 and 528-539: recommend_batch has returned, or raised.
BenchJoin ==
    /\ bench.pc = "parallel"
    /\ batch.pc \in {"returned", "raised"}
    /\ bench' = IF batch.pc = "returned"
                THEN [bench EXCEPT !.pc = "serial", !.pos = 1,
                                   !.serial_results = <<>>]
                ELSE [bench EXCEPT !.pc = "finally", !.status = "failed",
                                   !.users_processed = Len(bench.user_ids)]
    /\ Consumed
    /\ UNCHANGED <<started, cacheVars, engineVars, tasks, batch, scoreVars, uncached, serviceVars>>

\* serial_results[user_id] = value
SerialResult(user_id, value) ==
    Append(SelectSeq(bench.serial_results, LAMBDA e : e.user_id # user_id),
           [user_id |-> user_id, value |-> value])

\* Lines 482-492: reason="Benchmark test".
BenchFormat(raw_recommendations, k) ==
    LET top == FormatTop(raw_recommendations, k)
    IN  [n \in 1..Len(top) |-> [top[n] EXCEPT !.reason = "Benchmark test"]]

\* Line 481: the lookup of the serial pass's call for user_ids[pos].
SerialLookup ==
    /\ bench.pc = "serial"
    /\ bench.pos <= Len(bench.user_ids)
    /\ LET user_id == bench.user_ids[bench.pos]
           key == KeyOf(user_id, bench.ds)
       IN  /\ calls' = calls + 1
           /\ evicted' = <<>>
           /\ cleared' = AfterLookup(key)
           /\ IF key \in CachedKeys
              THEN /\ cache' = HitRefresh(key)
                   /\ hits' = hits + 1
                   /\ misses' = misses
                   /\ bench' = [bench EXCEPT
                          !.pos = bench.pos + 1,
                          !.serial_hits = bench.serial_hits + 1,
                          !.serial_results =
                              SerialResult(user_id,
                                           BenchFormat(EntryOf(key).result, bench.k))]
              ELSE /\ cache' = cache
                   /\ hits' = hits
                   /\ misses' = MissCounted(misses)
                   /\ bench' = [bench EXCEPT
                          !.pc = "scoring",
                          !.serial_misses = bench.serial_misses + 1]
    /\ Consumed
    /\ UNCHANGED <<started, engineVars, tasks, batch, scoreVars, uncached, serviceVars>>

\* Lines 481-495: the body returns and the wrapper stores the result, or
\* the body raises and the except clause records [].
SerialFinish ==
    /\ bench.pc = "scoring"
    /\ LET user_id == bench.user_ids[bench.pos]
           key == KeyOf(user_id, bench.ds)
           out == Scoring[user_id][bench.ds]
       IN  /\ IF out.raised
              THEN /\ cache' = cache
                   /\ evicted' = <<>>
              ELSE /\ cache' = Store(key, out.raw)
                   /\ evicted' = Victim(key)
           /\ bench' = [bench EXCEPT
                  !.pc = "serial",
                  !.pos = bench.pos + 1,
                  !.scored = bench.scored + 1,
                  !.serial_results =
                      SerialResult(user_id,
                                   IF out.raised THEN <<>>
                                   ELSE BenchFormat(out.raw, bench.k))]
    /\ cleared' = <<>>
    /\ Consumed
    /\ UNCHANGED <<started, hits, misses, calls, engineVars, tasks, batch,
                   scoreVars, uncached, serviceVars>>

\* dict.get(user_id, [])
GetOrEmpty(pairs, user_id) ==
    IF \E n \in 1..Len(pairs) : pairs[n].user_id = user_id
    THEN pairs[CHOOSE n \in 1..Len(pairs) : pairs[n].user_id = user_id].value
    ELSE <<>>

\* Lines 504-507.
results_match ==
    \A n \in 1..Len(bench.user_ids) :
        LET user_id == bench.user_ids[n]
        IN  Len(IF user_id \in DOMAIN batch.results THEN batch.results[user_id]
                ELSE <<>>)
                = Len(GetOrEmpty(bench.serial_results, user_id))

\* Lines 497-526: the serial pass is over.
BenchCompare ==
    /\ bench.pc = "serial"
    /\ bench.pos > Len(bench.user_ids)
    /\ bench' = [bench EXCEPT !.pc = "finally", !.status = "completed",
                              !.results_consistent = results_match,
                              !.users_processed = Len(bench.user_ids),
                              !.quiet = batch.quiet]
    /\ Consumed
    /\ UNCHANGED <<started, cacheVars, engineVars, tasks, batch, scoreVars, uncached, serviceVars>>

\* Lines 540-542: async_engine.shutdown(), begun.
BenchRelease(c) ==
    /\ bench.pc = "finally"
    /\ ReleasedOn(bench.status)
    /\ ~executor_shut
    /\ ShutdownBegin(c)

\* The call returns the dictionary of its try or except block.
BenchReturn ==
    /\ bench.pc = "finally"
    /\ ReleasedOn(bench.status) => _shutdown
    /\ bench' = [bench EXCEPT !.pc = "returned"]
    /\ Consumed
    /\ UNCHANGED <<started, cacheVars, engineVars, tasks, batch, scoreVars, uncached, serviceVars>>

\* Another thread clears the cache while the benchmark runs.
BenchInterference ==
    /\ bench.pc \in {"parallel", "serial"}
    /\ cache # <<>>
    /\ ClearCache

(***************************************************************************)
(* AsyncRecoEngine.get_performance_metrics and health_check.  hit_ratio is *)
(* the pair <<hits, total_requests>>, <<0, 1>> when there was no request.  *)
(***************************************************************************)
PerformanceMetrics ==
    LET total_requests == hits + misses
    IN  [cache_hits |-> hits, cache_misses |-> misses,
         cache_size |-> Len(cache), cache_max_size |-> maxsize,
         hit_ratio |-> IF total_requests > 0 THEN Rat(hits, total_requests)
                       ELSE <<0, 1>>,
         thread_pool_workers |-> max_workers,
         total_requests |-> total_requests,
         engine_status |-> IF _shutdown THEN "shutdown" ELSE "running"]

GetPerformanceMetrics ==
    /\ ~InFlight
    /\ metrics' = PerformanceMetrics
    /\ health' = <<>>
    /\ UNCHANGED <<started, cacheVars, engineVars, tasks, batch, scoreVars, callerVars>>

HealthCheck ==
    /\ ~InFlight
    /\ health' = [status |-> IF ~_shutdown THEN "healthy" ELSE "shutdown",
                  workers |-> max_workers,
                  cache_effectiveness |-> PerformanceMetrics.hit_ratio]
    /\ metrics' = <<>>
    /\ UNCHANGED <<started, cacheVars, engineVars, tasks, batch, scoreVars, callerVars>>

(***************************************************************************)
(* Report aggregation.  A recommendation map is the sequence of its        *)
(* items, [user_id, recs], in the dictionary's insertion order.  Scores    *)
(* and rates are exact rationals.                                          *)
(***************************************************************************)
\* The keys of a dict filled in the order of seq: each at its first place.
RECURSIVE DictKeys(_)
DictKeys(seq) ==
    IF seq = <<>> THEN <<>>
    ELSE LET front == DictKeys(SubSeq(seq, 1, Len(seq) - 1))
             last == seq[Len(seq)]
         IN  IF last \in Range(front) THEN front ELSE Append(front, last)

\* recommendations.items() of the map recommend_batch returned.
Items(user_ids, results) ==
    LET keys == DictKeys(user_ids)
    IN  [i \in 1..Len(keys) |-> [user_id |-> keys[i], recs |-> results[keys[i]]]]

\* [rec for recs in recommendations.values() for rec in recs]
RECURSIVE AllRecs(_)
AllRecs(items) ==
    IF items = <<>> THEN <<>>
    ELSE AllRecs(SubSeq(items, 1, Len(items) - 1)) \o items[Len(items)].recs

\* sum(all_scores)
RECURSIVE SumScores(_)
SumScores(recs) ==
    IF recs = <<>> THEN <<0, 1>>
    ELSE RAdd(SumScores(SubSeq(recs, 1, Len(recs) - 1)), recs[Len(recs)].score)

\* sum(all_scores) / len(all_scores) if all_scores else 0
AverageScore(recs) ==
    IF recs # <<>> THEN RDiv(SumScores(recs), <<Len(recs), 1>>) ELSE <<0, 1>>

\* book_recommendation_count.items(): <<book_id, count>> in the order the
\* books were first met.
BookCounts(recs) ==
    LET ids == DictKeys([i \in 1..Len(recs) |-> recs[i].book_id])
    IN  [i \in 1..Len(ids) |->
            <<ids[i], Cardinality({j \in 1..Len(recs) : recs[j].book_id = ids[i]})>>]

\* sorted(..., key=lambda x: x[1], reverse=True): stable.
RECURSIVE InsertByCount(_, _)
InsertByCount(x, sorted) ==
    IF sorted = <<>> THEN <<x>>
    ELSE IF x[2] > Head(sorted)[2] THEN <<x>> \o sorted
    ELSE <<Head(sorted)>> \o InsertByCount(x, Tail(sorted))

RECURSIVE SortByCount(_)
SortByCount(seq) ==
    IF seq = <<>> THEN <<>>
    ELSE InsertByCount(seq[Len(seq)], SortByCount(SubSeq(seq, 1, Len(seq) - 1)))

\* The five most recommended books that the catalogue knows.
TopBooks(recs, books) ==
    LET top == PySlice(SortByCount(BookCounts(recs)), 5)
        known == SelectSeq(top, LAMBDA e : \E b \in 1..Len(books) : books[b].id = e[1])
    IN  [i \in 1..Len(known) |->
            LET b == CHOOSE b \in 1..Len(books) :
                         /\ books[b].id = known[i][1]
                         /\ \A c \in 1..(b - 1) : books[c].id # known[i][1]
            IN  [title |-> books[b].title, author |-> books[b].author,
                 genre |-> books[b].genre, recommendation_count |-> known[i][2]]]

EveryUserSucceeds(items) == Len(items)

\* successful_users: the users whose list is not empty.
SuccessfulUsers(items) ==
    Cardinality({i \in 1..Len(items) : items[i].recs # <<>>})

(***************************************************************************)
(* core/services.py AsyncRecoService._analyze_recommendation_quality.      *)
(***************************************************************************)
_analyze_recommendation_quality(items, books) ==
    IF items = <<>>
    THEN [average_score |-> <<0, 1>>, success_rate |-> <<0, 1>>,
          genre_diversity |-> 0, top_recommended_books |-> <<>>]
    ELSE LET recs == AllRecs(items)
         IN  [average_score |-> AverageScore(recs),
              success_rate |-> Rat(SuccessfulUsers(items), Len(items)),
              genre_diversity |-> Cardinality({recs[i].genre : i \in 1..Len(recs)}),
              top_recommended_books |-> TopBooks(recs, books)]

\* round(x, 3) of a rational x >= 0, a tie going to the even neighbour.  (A
\* float that is not the rational it stands for can fall on the other side
\* of a tie.)
Round3(x) ==
    LET scaled == 1000 * x[1]
        floor == scaled \div x[2]
        twice == 2 * (scaled % x[2])
        up == twice > x[2] \/ (twice = x[2] /\ floor % 2 = 1)
    IN  Rat(IF up THEN floor + 1 ELSE floor, 1000)

(***************************************************************************)
(* core/async_utils.py AsyncRecoService._calculate_quality_metrics.        *)
(***************************************************************************)
_calculate_quality_metrics(items, books) ==
    IF items = <<>>
    THEN [average_score |-> <<0, 1>>, success_rate |-> <<0, 1>>,
          genre_diversity |-> 0, top_recommended_books |-> <<>>]
    ELSE LET recs == AllRecs(items)
         IN  [average_score |-> Round3(AverageScore(recs)),
              success_rate |-> Round3(Rat(SuccessfulUsers(items), Len(items))),
              genre_diversity |-> Cardinality({recs[i].genre : i \in 1..Len(recs)}),
              top_recommended_books |-> TopBooks(recs, books)]

(***************************************************************************)
(* core/async_utils.py AsyncRecoService._calculate_user_statistics and     *)
(* _get_preferred_genres.                                                  *)
(***************************************************************************)
\* The number of ratings of a user.
RatingCount(user_id, ratings) ==
    Cardinality({i \in 1..Len(ratings) : ratings[i].user_id = user_id})

\* The keys of user_ratings_count: the users of user_ids met in ratings.
RatedUsers(user_ids, ratings) ==
    {u \in Range(user_ids) : RatingCount(u, ratings) > 0}

\* `rating.value >= 4` is a TypeError when the value is None; it is
\* evaluated for the ratings of the users of user_ids only.
PreferredGenresRaise(user_ids, ratings) ==
    \E i \in 1..Len(ratings) :
        ratings[i].user_id \in Range(user_ids) /\ ratings[i].value = NoneValue

\* genre_counts: the count filed under "General", <<>> for the empty dict.
_get_preferred_genres(user_ids, ratings) ==
    LET n == Cardinality({i \in 1..Len(ratings) :
                             /\ ratings[i].user_id \in Range(user_ids)
                             /\ ratings[i].value >= 4})
    IN  IF n = 0 THEN <<>> ELSE <<[genre |-> "General", count |-> n]>>

_calculate_user_statistics(user_ids, ratings) ==
    LET counted == RatedUsers(user_ids, ratings)
        total == Cardinality({i \in 1..Len(ratings) :
                                 ratings[i].user_id \in Range(user_ids)})
    IN  [user_activity_levels |->
            [high |-> Cardinality({u \in counted : RatingCount(u, ratings) >= 10}),
             medium |-> Cardinality({u \in counted :
                                        /\ RatingCount(u, ratings) < 10
                                        /\ RatingCount(u, ratings) >= 5}),
             low |-> Cardinality({u \in counted : RatingCount(u, ratings) < 5})],
         average_ratings_per_user |->
            IF user_ids # <<>> THEN Rat(total, Len(user_ids)) ELSE <<0, 1>>,
         preferred_genres |-> _get_preferred_genres(user_ids, ratings)]

(***************************************************************************)
(* core/async_utils.py AsyncRecoService (core/services.py holds a second   *)
(* class of the same name whose generate_parallel_report, history and      *)
(* clear_history read the same).  generate_parallel_report awaits          *)
(* recommend_batch on the service's engine; what follows the await runs    *)
(* without giving the event loop away.                                     *)
(***************************************************************************)
\* Lines 277-297: the call, up to the await.
ReportCall(user_ids, ds, k) ==
    /\ service.pc \in {"idle", "returned", "raised"}
    /\ service.made < MaxReports
    /\ <<user_ids, ds, k, <<>>>> \in ReportRequests
    /\ ~InFlight
    /\ service' = [service EXCEPT !.pc = "batch", !.user_ids = user_ids,
                                  !.ds = ds, !.k = k, !.error = "",
                                  !.made = service.made + 1]
    /\ batch' = IdleBatch
    /\ Consumed
    /\ UNCHANGED <<started, cacheVars, engineVars, tasks, scoreVars, uncached, bench,
                   agg_in, agg_out>>

\* Line 299: the call of recommend_batch.
ReportBatch ==
    /\ service.pc = "batch"
    /\ batch.pc = "idle"
    /\ StartBatch(service.user_ids, service.ds, service.k, <<>>)

\* The report of lines 312-327 without its clock readings; call is history:
\* the number of the call that built it.
Report(recommendations, performance_metrics) ==
    LET d == Datasets[service.ds]
        items == Items(service.user_ids, recommendations)
        quality_metrics == _calculate_quality_metrics(items, d.books)
    IN  [call |-> service.made,
         users_processed |-> Len(service.user_ids),
         recommendations_per_user |-> service.k,
         total_recommendations |-> Len(AllRecs(items)),
         recommendations |-> items,
         performance_metrics |-> performance_metrics,
         user_statistics |-> _calculate_user_statistics(service.user_ids, d.ratings),
         quality_metrics |-> quality_metrics,
         system_metrics |->
            [average_recommendation_score |-> quality_metrics.average_score,
             success_rate |-> quality_metrics.success_rate,
             genre_diversity |-> quality_metrics.genre_diversity]]

AppendsWhateverHappens(outcome, history, report) == Append(history, report)

\* Line 330, which an exception raised on the way never reaches.
HistoryAfter(outcome, history, report) ==
    IF outcome = "returned" THEN Append(history, report) ELSE history

\* Lines 299-332: recommend_batch has returned, or raised; the statistics
\* raise, or the report is built, appended and returned.
ReportFinish ==
    /\ service.pc = "batch"
    /\ batch.pc \in {"returned", "raised"}
    /\ LET error == IF batch.pc = "raised" THEN batch.error
                    ELSE IF PreferredGenresRaise(service.user_ids,
                                                 Datasets[service.ds].ratings)
                    THEN "TypeError"
                    ELSE ""
           outcome == IF error = "" THEN "returned" ELSE "raised"
           report == IF error = "" THEN Report(batch.results, PerformanceMetrics)
                     ELSE <<>>
       IN  service' = [service EXCEPT
               !.pc = outcome,
               !.error = error,
               !.performance_history =
                   HistoryAfter(outcome, service.performance_history, report),
               !.returned = IF outcome = "returned"
                            THEN Append(service.returned, service.made)
                            ELSE service.returned]
    /\ Consumed
    /\ UNCHANGED <<started, cacheVars, engineVars, tasks, batch, scoreVars, uncached,
                   bench, agg_in, agg_out>>

\* Lines 421-423: performance_history.clear().
ClearHistory ==
    /\ service.performance_history # <<>>
    /\ service' = [service EXCEPT !.performance_history = <<>>,
                                  !.returned = <<>>]
    /\ Consumed
    /\ UNCHANGED <<started, cacheVars, engineVars, tasks, batch, scoreVars, uncached,
                   bench, agg_in, agg_out>>

ReturnsTheList(history) == [items |-> history, shared |-> TRUE]

\* Lines 417-419: performance_history.copy(), a new list.
get_performance_history(history) == [items |-> history, shared |-> FALSE]

GetPerformanceHistory ==
    /\ service.performance_history # <<>>
    /\ LET got == get_performance_history(service.performance_history)
       IN  service' = [service EXCEPT !.history_copy = got.items,
                                      !.shared = got.shared,
                                      !.emptied = FALSE]
    /\ Consumed
    /\ UNCHANGED <<started, cacheVars, engineVars, tasks, batch, scoreVars, uncached,
                   bench, agg_in, agg_out>>

\* The list the caller holds.
HeldList ==
    IF service.shared THEN service.performance_history ELSE service.history_copy

\* The caller empties the list it got from get_performance_history.
MutateCopy ==
    /\ HeldList # <<>>
    /\ service' = [service EXCEPT
           !.history_copy = <<>>,
           !.emptied = TRUE,
           !.performance_history = IF service.shared THEN <<>> ELSE @]
    /\ Consumed
    /\ UNCHANGED <<started, cacheVars, engineVars, tasks, batch, scoreVars, uncached,
                   bench, agg_in, agg_out>>

(***************************************************************************)
(* The engine with its cache, its callers and its worker threads.          *)
(***************************************************************************)
NoScore == [pc |-> "off"]

Init ==
    /\ cache = <<>>
    /\ hits = 0 /\ misses = 0 /\ calls = 0 /\ started = 0
    /\ evicted = <<>>
    /\ cleared = <<>>
    /\ max_workers \in WorkerCounts
    /\ _shutdown = FALSE
    /\ executor_shut = FALSE
    /\ pool_shutdowns = 0
    /\ shut_pc = [c \in ShutCallers |-> "idle"]
    /\ tasks = <<>>
    /\ batch = IdleBatch
    /\ metrics = <<>>
    /\ health = <<>>
    /\ score_in = NoScore
    /\ score_out = NoScore
    /\ CallersIdle

Next ==
    \/ \E user_ids \in UserIdLists, ds \in DatasetIds, k \in Ks, timeout \in Timeouts :
           StartBatch(user_ids, ds, k, timeout)
    \/ Submit
    \/ \E i \in TaskIdx : TaskStart(i)
    \/ \E i \in TaskIdx : TaskFinish(i)
    \/ GatherDone
    \/ \E n \in 0..Len(tasks) : TimeoutFire(n)
    \/ \E c \in ShutCallers : ShutdownBegin(c)
    \/ \E c \in ShutCallers : ShutdownFinish(c)
    \/ GetPerformanceMetrics
    \/ HealthCheck

Spec == Init /\ [][Next]_vars

\* The steps the event loop and the pool's worker threads take on their
\* own: a submission, a lookup, the end of a computation, the return of a
\* complete gather.
Progress ==
    \/ Submit
    \/ \E i \in TaskIdx : TaskStart(i)
    \/ \E i \in TaskIdx : TaskFinish(i)
    \/ GatherDone

\* While one of them is possible, one of them is eventually taken.  Nothing
\* obliges a caller to start a batch or to shut down, nor a timeout to
\* elapse.
Fairness == WF_vars(Progress)

\* The engine with one caller of recommend_batch and the shutdown() callers.
NextLive ==
    \/ \E user_ids \in UserIdLists, ds \in DatasetIds, k \in Ks, timeout \in Timeouts :
           StartBatch(user_ids, ds, k, timeout)
    \/ Submit
    \/ \E i \in TaskIdx : TaskStart(i)
    \/ \E i \in TaskIdx : TaskFinish(i)
    \/ GatherDone
    \/ \E n \in 0..Len(tasks) : TimeoutFire(n)
    \/ \E c \in ShutCallers : ShutdownBegin(c)
    \/ \E c \in ShutCallers : ShutdownFinish(c)

SpecLive == Init /\ [][NextLive]_vars /\ Fairness


(***************************************************************************)
(* The cache on its own: threads call recommend_for_user_cached (a work    *)
(* item nobody gathers) and clear_cache() while other calls are running.   *)
(***************************************************************************)
CallUsers == {"u1", "u2", "u3"}

CallDatasets == {1, 3}

CallCached(user_id, ds) ==
    /\ Len(tasks) < max_workers
    /\ calls + Len(tasks) < MaxCalls
    /\ tasks' = Append(tasks, Orphan(Task(0, user_id, ds, 1)))
    /\ Consumed
    /\ UNCHANGED <<started, cacheVars, engineVars, batch, scoreVars, callerVars>>

NextCache ==
    \/ \E user_id \in CallUsers, ds \in CallDatasets : CallCached(user_id, ds)
    \/ \E i \in TaskIdx : TaskStart(i)
    \/ \E i \in TaskIdx : TaskFinish(i)
    \/ ClearCache

SpecCache == Init /\ [][NextCache]_vars

(***************************************************************************)
(* The cache with a thread that calls recommend_for_user_uncached while    *)
(* other threads call recommend_for_user_cached, up to the return of the   *)
(* former.                                                                 *)
(***************************************************************************)
UncachedUsers == {"u1", "u2"}

NextUncached ==
    \/ \E user_id \in CallUsers, ds \in CallDatasets :
           /\ calls + Len(tasks) < MaxRacing
           /\ uncached.pc \notin {"returned", "raised"}
           /\ CallCached(user_id, ds)
    \/ \E i \in TaskIdx : TaskStart(i)
    \/ \E i \in TaskIdx : TaskFinish(i)
    \/ \E user_id \in UncachedUsers, ds \in CallDatasets : UncachedClear(user_id, ds)
    \/ UncachedLookup
    \/ UncachedFinish

SpecUncached == Init /\ [][NextUncached]_vars

(***************************************************************************)
(* benchmark_recommendations called again and again by one coroutine, and  *)
(* a thread that clears the cache.                                         *)
(***************************************************************************)
NextBench ==
    \/ \E user_ids \in BenchLists, ds \in DatasetIds, k \in Ks, workers \in WorkerCounts :
           BenchCall(user_ids, ds, k, workers)
    \/ BenchParallel
    \/ Submit
    \/ \E i \in TaskIdx : TaskStart(i)
    \/ \E i \in TaskIdx : TaskFinish(i)
    \/ GatherDone
    \/ BenchJoin
    \/ SerialLookup
    \/ SerialFinish
    \/ BenchCompare
    \/ \E c \in ShutCallers : BenchRelease(c)
    \/ \E c \in ShutCallers : ShutdownFinish(c)
    \/ BenchReturn
    \/ BenchInterference

SpecBench == Init /\ [][NextBench]_vars

(***************************************************************************)
(* The scoring function on its own: recommend_for_user_cached's body and   *)
(* the formatting of _recommend_single_user, applied once to arguments     *)
(* drawn from every ratings tuple of up to MaxRatings ratings.             *)
(***************************************************************************)
ScoreUsers == {"u1", "u2"}

ScoreValues == {NoneValue, 3, 4, 5}

RatingUniverse ==
    {Rating(u, b, v) : u \in ScoreUsers, b \in {"1", "2", "3"}, v \in ScoreValues}

RECURSIVE SeqsUpTo(_, _)
SeqsUpTo(S, n) ==
    IF n = 0 THEN {<<>>}
    ELSE LET shorter == SeqsUpTo(S, n - 1)
         IN  shorter \cup {Append(q, x) : q \in shorter, x \in S}

\* A catalog of more than TopN books; its second book has the author and
\* the genre of the first, its last six tie on author and genre.
CatalogBig ==
    <<B1,
      Book("2", "B", "Smith", "Sci-Fi", 2018, 40),
      B3,
      Book("4", "D", "Jones", "Sci-Fi", 2017, 50),
      Book("5", "E", "Jones", "Fantasy", 2016, 10),
      Book("6", "F", "Brown", "Crime", 2015, 0),
      Book("7", "G", "Brown", "Crime", 2014, 50),
      Book("8", "H", "Brown", "Crime", 2013, 20),
      Book("9", "I", "Brown", "Crime", 2012, 30),
      Book("10", "J", "Brown", "Crime", 2011, 40),
      Book("11", "K", "Brown", "Crime", 2010, 45)>>

Catalogs == {<<>>, <<B1, B2>>, <<B2, B3, B1>>, CatalogBig}

ScoreKs == {0, 1, 3, 11}

InitScore ==
    /\ cache = <<>>
    /\ hits = 0 /\ misses = 0 /\ calls = 0 /\ started = 0
    /\ evicted = <<>>
    /\ cleared = <<>>
    /\ max_workers = 1
    /\ _shutdown = FALSE
    /\ executor_shut = FALSE
    /\ pool_shutdowns = 0
    /\ shut_pc = [c \in ShutCallers |-> "idle"]
    /\ tasks = <<>>
    /\ batch = IdleBatch
    /\ metrics = <<>>
    /\ health = <<>>
    /\ score_in \in [pc : {"call"}, user_id : ScoreUsers,
                     ratings : SeqsUpTo(RatingUniverse, MaxRatings),
                     books : Catalogs, k : ScoreKs]
    /\ score_out = NoScore
    /\ CallersIdle

ScoreCall ==
    /\ score_in.pc = "call"
    /\ score_out = NoScore
    /\ LET raised == ScoringRaises(score_in.user_id, score_in.ratings, score_in.books)
           raw == IF raised THEN <<>>
                  ELSE recommend_body(score_in.user_id, score_in.ratings, score_in.books)
       IN  score_out' = [pc |-> "done", raised |-> raised, raw |-> raw,
                         recs |-> _recommend_single_user(raw, score_in.k, raised).value]
    /\ UNCHANGED <<started, cacheVars, engineVars, tasks, batch, metrics, health,
                   score_in, callerVars>>

NextScore == ScoreCall

SpecScore == InitScore /\ [][NextScore]_vars

(***************************************************************************)
(* The service: reports on its engine, the history and its callers, the    *)
(* engine's worker threads and shutdown().                                 *)
(***************************************************************************)
NextService ==
    \/ \E user_ids \in ReportLists, ds \in {1, 3}, k \in {2} :
           ReportCall(user_ids, ds, k)
    \/ ReportBatch
    \/ Submit
    \/ \E i \in TaskIdx : TaskStart(i)
    \/ \E i \in TaskIdx : TaskFinish(i)
    \/ GatherDone
    \/ ReportFinish
    \/ ClearHistory
    \/ GetPerformanceHistory
    \/ MutateCopy
    \/ \E c \in ShutCallers : ShutdownBegin(c)
    \/ \E c \in ShutCallers : ShutdownFinish(c)

SpecService == Init /\ [][NextService]_vars

(***************************************************************************)
(* The aggregation functions on their own: one call of                     *)
(* _calculate_user_statistics or of _analyze_recommendation_quality, on    *)
(* user lists with a user twice and with unrated users, on rating counts   *)
(* around the tier thresholds, on maps with empty lists, with a book the   *)
(* catalogue does not know and with more than five books.                  *)
(***************************************************************************)
StatLists ==
    {<<>>, <<"u1">>, <<"u1", "u2">>, <<"u2", "u1", "u3">>, <<"u1", "u1">>}

StatCounts == {0, 4, 5, 9, 10}

\* n ratings of a user, of values 3 and 5 in turn.
RatingsBy(user_id, n) ==
    [i \in 1..n |-> Rating(user_id, "1", IF i % 2 = 0 THEN 5 ELSE 3)]

StatRatings ==
    {RatingsBy("u1", c[1]) \o RatingsBy("u4", 1) \o RatingsBy("u2", c[2])
         \o RatingsBy("u3", c[3]) : c \in StatCounts \X StatCounts \X StatCounts}
        \cup {RatingsBad}

RecOf(book, score) ==
    Recommendation(<<book.id, book.title, book.author, book.genre, score>>)

RecLists ==
    {<<>>,
     <<RecOf(B1, <<9, 10>>)>>,
     <<RecOf(B1, <<9, 10>>), RecOf(B3, <<4, 5>>)>>,
     <<RecOf(B3, <<7, 10>>)>>,
     <<RecOf(Book("99", "Z", "Gray", "Poetry", 2000, 0), <<1, 2>>)>>,
     [i \in 1..6 |-> RecOf(CatalogBig[i + 3], <<1, 2>>)]}

MapKeys == {<<>>, <<"u1">>, <<"u1", "u2">>, <<"u1", "u2", "u3">>, <<"u3", "u1">>}

RecommendationMaps ==
    UNION {{[i \in 1..Len(keys) |-> [user_id |-> keys[i], recs |-> lists[i]]] :
                lists \in [1..Len(keys) -> RecLists]} : keys \in MapKeys}

AggInputs ==
    [pc : {"call"}, kind : {"statistics"}, user_ids : StatLists,
     ratings : StatRatings, items : {<<>>}, books : {CatalogBig}]
        \cup [pc : {"call"}, kind : {"quality"}, user_ids : {<<>>},
              ratings : {<<>>}, items : RecommendationMaps, books : {CatalogBig}]

InitReport ==
    /\ cache = <<>>
    /\ hits = 0 /\ misses = 0 /\ calls = 0 /\ started = 0
    /\ evicted = <<>>
    /\ cleared = <<>>
    /\ max_workers = 1
    /\ _shutdown = FALSE
    /\ executor_shut = FALSE
    /\ pool_shutdowns = 0
    /\ shut_pc = [c \in ShutCallers |-> "idle"]
    /\ tasks = <<>>
    /\ batch = IdleBatch
    /\ metrics = <<>>
    /\ health = <<>>
    /\ score_in = NoScore
    /\ score_out = NoScore
    /\ uncached = NoUncached
    /\ bench = NoBench
    /\ service = NoService
    /\ agg_in \in AggInputs
    /\ agg_out = NoAgg

StatisticsCall ==
    /\ agg_in.pc = "call"
    /\ agg_in.kind = "statistics"
    /\ agg_out = NoAgg
    /\ agg_out' =
          IF PreferredGenresRaise(agg_in.user_ids, agg_in.ratings)
          THEN [pc |-> "raised", value |-> <<>>]
          ELSE [pc |-> "done",
                value |-> _calculate_user_statistics(agg_in.user_ids, agg_in.ratings)]
    /\ UNCHANGED <<started, cacheVars, engineVars, tasks, batch, metrics, health,
                   scoreVars, uncached, bench, service, agg_in>>

QualityCall ==
    /\ agg_in.pc = "call"
    /\ agg_in.kind = "quality"
    /\ agg_out = NoAgg
    /\ agg_out' = [pc |-> "done",
                   value |-> _analyze_recommendation_quality(agg_in.items, agg_in.books)]
    /\ UNCHANGED <<started, cacheVars, engineVars, tasks, batch, metrics, health,
                   scoreVars, uncached, bench, service, agg_in>>

NextReport == StatisticsCall \/ QualityCall

SpecReport == InitReport /\ [][NextReport]_vars


(***************************************************************************)
(* Properties.                                                             *)
(***************************************************************************)
\* What scoring and formatting give a user on their own.
Fails(user_id, ds) ==
    ScoringRaises(user_id, Datasets[ds].ratings, Datasets[ds].books)

Alone(user_id, ds, k) ==
    IF Fails(user_id, ds) THEN <<>>
    ELSE FormatTop(recommend_body(user_id, Datasets[ds].ratings,
                                  Datasets[ds].books), k)

BatchUsers == Range(batch.user_ids)

\* C1: when the scoring of a user of the batch raises, recommend_batch
\* raises for no other reason than a timeout or a shut pool, and in the
\* mapping it returns that user's entry is the empty list and every other
\* user's entry is what scoring and formatting give that user alone.
C1_FailureIsolated ==
    /\ (batch.pc = "raised" /\ batch.error \notin {"shutdown", "executor"})
           => batch.error = "timeout" /\ Truthy(batch.timeout)
    /\ (batch.pc = "returned" /\ \E u \in BatchUsers : Fails(u, batch.ds))
           => \A u \in BatchUsers :
                  batch.results[u] =
                      IF Fails(u, batch.ds) THEN <<>>
                      ELSE Alone(u, batch.ds, batch.k)

C1_Witness ==
    /\ batch.pc = "returned"
    /\ \E u, v \in BatchUsers :
           /\ Fails(u, batch.ds) /\ batch.results[u] = <<>>
           /\ ~Fails(v, batch.ds) /\ batch.results[v] # <<>>

\* C2: a returned mapping has exactly the ids of user_ids as its keys and
\* maps each id to the result computed for that id, whatever the order in
\* which the work items completed.
C2_KeysAndAttribution ==
    batch.pc = "returned" =>
        /\ DOMAIN batch.results = BatchUsers
        /\ \A n \in 1..Len(batch.user_ids) :
               batch.results[batch.user_ids[n]] =
                   Alone(batch.user_ids[n], batch.ds, batch.k)

C2_Witness ==
    /\ batch.pc = "returned"
    /\ Len(batch.user_ids) = 3
    /\ batch.order = <<3, 1, 2>>
    /\ \A u, v \in BatchUsers : u # v => batch.results[u] # batch.results[v]

\* C3: when a timeout is supplied and elapses while work items of the batch
\* are outstanding, no mapping is returned.
C3_NoMappingPastDeadline ==
    ~(batch.pc = "returned" /\ batch.deadline_missed)

\* C4: on an engine that is shut down, every recommend_batch call, also with
\* the empty list, raises the shutdown error, submits nothing to the pool
\* and leaves the cache and its counters untouched.
C4_FailsFastAfterShutdown ==
    [][(_shutdown /\ started' # started) =>
          /\ batch'.pc = "raised" /\ batch'.error = "shutdown"
          /\ tasks' = tasks
          /\ UNCHANGED <<cache, hits, misses, calls>>]_vars

C4_Witness ==
    /\ _shutdown
    /\ batch.pc = "raised" /\ batch.error = "shutdown"
    /\ batch.user_ids = <<>>

\* C5: once _shutdown is set it stays set, and a shutdown() call made then
\* returns without touching the worker pool.
C5_ShutdownIsTerminal ==
    [][_shutdown =>
          /\ _shutdown'
          /\ pool_shutdowns' = pool_shutdowns
          /\ executor_shut' = executor_shut
          /\ \A c \in ShutCallers :
                 shut_pc'[c] # shut_pc[c] => shut_pc'[c] = "noop"]_vars

C5_Witness ==
    /\ _shutdown
    /\ \E c \in ShutCallers : shut_pc[c] = "noop"
    /\ pool_shutdowns = 1
    /\ metrics # <<>> /\ metrics.engine_status = "shutdown"

\* C6: no recommendation computed for a user, raw or formatted, is a book
\* that any rating of that user names, whatever the rating's value.
RatedIds(user_id, ratings) ==
    {r.book_id : r \in {x \in Range(ratings) : x.user_id = user_id}}

C6_NeverAlreadyRated ==
    score_out.pc = "done" =>
        /\ \A n \in 1..Len(score_out.raw) :
               score_out.raw[n][1] \notin RatedIds(score_in.user_id, score_in.ratings)
        /\ \A n \in 1..Len(score_out.recs) :
               score_out.recs[n].book_id \notin RatedIds(score_in.user_id, score_in.ratings)

C6_Witness ==
    /\ score_out.pc = "done"
    /\ score_out.recs # <<>>
    /\ \E r \in Range(score_in.ratings) :
           /\ r.user_id = score_in.user_id
           /\ r.value < HighRating
           /\ \E b \in Range(score_in.books) : b.id = r.book_id

\* C7 as claimed: a recommend_batch call that follows, with nothing else
\* touching the cache, a call with content-equal inputs returns the same
\* lists, adds one hit per requested user and adds no miss.
SecondOfTwo == batch.pc = "returned" /\ batch.repeat /\ batch.quiet

SameAsBefore ==
    /\ batch.results = batch.before
    /\ hits = batch.hits0 + Len(batch.user_ids)
    /\ misses = batch.misses0

C8_SizeBounded == Len(cache) <= maxsize

C8_Witness ==
    /\ Len(cache) = maxsize
    /\ evicted # <<>>
    /\ Cardinality(Running) > 0

\* C9: a new key stored into a full cache evicts exactly the entry whose
\* latest access, insertion or hit, is the oldest.
C9_EvictsLeastRecent ==
    [][(Len(cache) = maxsize /\ CachedKeys' \ CachedKeys # {}) =>
          \E i \in 1..Len(cache) :
              /\ CachedKeys \ CachedKeys' = {cache[i].key}
              /\ \A j \in 1..Len(cache) : cache[i].last <= cache[j].last]_vars

C9_Witness ==
    /\ evicted # <<>>
    /\ evicted[1].older_stays
    /\ hits > 0

\* C10: every call of the cached function adds one to exactly one of hits
\* and misses, under every interleaving of the calling threads.
C10_CountersExact == hits + misses = calls

C10_Witness ==
    /\ hits > 0
    /\ misses > 1
    /\ Cardinality(Running) = 2
    /\ \E i \in Running : Fails(tasks[i].user_id, tasks[i].ds)

\* C11: work items that request the same key never compute it side by side,
\* and a batch run on its own that returns counts at most one miss per
\* distinct user whose scoring does not raise.
C11_AtMostOncePerKey ==
    /\ \A i, j \in Running :
           KeyOf(tasks[i].user_id, tasks[i].ds) = KeyOf(tasks[j].user_id, tasks[j].ds)
               => i = j
    /\ (/\ batch.pc = "returned" /\ batch.quiet
        /\ \A u \in BatchUsers : ~Fails(u, batch.ds))
           => misses - batch.misses0 <= Cardinality(BatchUsers)

\* The latest cache operation was clear_cache().
JustCleared == cleared # <<>> /\ cleared[1].phase = "cleared"

\* C12 as claimed: right after clear_cache() the counters hits and misses
\* are what they were right before it.
C12_AsClaimed ==
    JustCleared => hits = cleared[1].hits /\ misses = cleared[1].misses

\* C12 amended: right after clear_cache() the counters hits and misses are
\* both 0, whatever they were before.
C12_ClearZeroesCounters ==
    JustCleared => hits = 0 /\ misses = 0

C12_Witness ==
    /\ JustCleared
    /\ cleared[1].hits > 0 /\ cleared[1].misses > 0
    /\ hits = 0 /\ misses = 0

\* The first call after clear_cache(), made with no other call in flight,
\* has looked its key up and has not ended.
FirstCall == cleared # <<>> /\ cleared[1].phase = "first"

\* C13: right after clear_cache() the cache is empty whatever it held; the
\* next call, for any key, is a miss that runs the computation, and when it
\* returns a value the cache holds that key and nothing else.
C13_ClearDropsEverything ==
    /\ [](JustCleared => Len(cache) = 0)
    /\ [](FirstCall =>
             /\ misses = 1 /\ hits = 0 /\ cache = <<>>
             /\ \E i \in Running :
                    /\ Running = {i}
                    /\ KeyOf(tasks[i].user_id, tasks[i].ds) = cleared[1].key)
    /\ [][(/\ FirstCall /\ cleared' = <<>> /\ Running' = {}
           /\ \A i \in Running : ~Fails(tasks[i].user_id, tasks[i].ds))
              => /\ Len(cache') = 1
                 /\ cache'[1].key = cleared[1].key]_vars

C13_Witness ==
    /\ FirstCall
    /\ cleared[1].was_cached

\* The work items the current recommend_batch call awaits.
LiveTasks == {i \in TaskIdx : tasks[i].live}

\* C14: recommend_batch submits exactly one work item per element of
\* user_ids, and at no moment do more than max_workers work items run on
\* the engine.
C14_BoundedFanOut ==
    /\ Cardinality(Running) <= max_workers
    /\ batch.pc = "submitting" => Cardinality(LiveTasks) = batch.submitted
    /\ batch.pc = "waiting" =>
          /\ Cardinality(LiveTasks) = Len(batch.user_ids)
          /\ \A n \in 1..Len(batch.user_ids) :
                 \E i \in LiveTasks :
                     /\ tasks[i].idx = n
                     /\ tasks[i].user_id = batch.user_ids[n]

C14_Witness ==
    /\ batch.pc = "waiting"
    /\ Len(batch.user_ids) > max_workers
    /\ Cardinality(Running) = max_workers
    /\ Pending # {}

\* C15: on a running engine a recommend_batch call with the empty list
\* returns the empty mapping, submits nothing to the pool and leaves the
\* cache's entries and its counters as they were.
C15_EmptyListIsANoOp ==
    [][(~_shutdown /\ started' # started /\ batch'.user_ids = <<>>) =>
          /\ batch'.pc = "returned"
          /\ DOMAIN batch'.results = {}
          /\ tasks' = tasks
          /\ UNCHANGED <<cache, hits, misses, calls>>]_vars

C15_Witness ==
    /\ ~_shutdown
    /\ batch.pc = "returned"
    /\ batch.user_ids = <<>>
    /\ cache # <<>>
    /\ tasks # <<>>

\* The scoring call under observation returned a value.
Scored == score_out.pc = "done" /\ ~score_out.raised

\* The catalog book an entry of the result names.
BookOf(id) == CHOOSE b \in Range(score_in.books) : b.id = id

\* Similarity of a book in thirty-fifths, ten times over: 20 for a
\* preferred author plus 15 for a preferred genre, where the user prefers
\* the authors and genres of the catalog books they rated 4 or higher.
Liked ==
    {b \in Range(score_in.books) :
        \E r \in Range(score_in.ratings) :
            r.user_id = score_in.user_id /\ r.book_id = b.id /\ r.value >= 4}

SimPoints(b) ==
    (IF \E l \in Liked : l.author = b.author THEN 20 ELSE 0)
        + (IF \E l \in Liked : l.genre = b.genre THEN 15 ELSE 0)

\* The positions of the ratings of a book, and the sum of their values.
RatingsAt(id) ==
    {i \in 1..Len(score_in.ratings) : score_in.ratings[i].book_id = id}

RECURSIVE ValueSum(_)
ValueSum(I) ==
    IF I = {} THEN 0
    ELSE LET i == CHOOSE x \in I : TRUE
         IN  score_in.ratings[i].value + ValueSum(I \ {i})

\* score = p/q equals s/35 * 7/10 + r/5 * 3/10 for r = rn/rd.
ScoreIs(score, s, rn, rd) ==
    score[1] * 50 * rd = score[2] * (s * rd + 3 * rn)

TheExample ==
    /\ score_in.user_id = "u1"
    /\ score_in.books = <<B1, B2>>
    /\ score_in.ratings = <<Rating("u1", "1", 5)>>
    /\ score_in.k = 1

PosInCatalog(id) ==
    CHOOSE i \in 1..Len(score_in.books) : score_in.books[i].id = id

Higher(x, y) == x[1] * y[2] > y[1] * x[2]

\* ids and scores, in order, of the raw tuples and of the formatted list.
RawRanking ==
    [n \in 1..Len(score_out.raw) |->
        [id |-> score_out.raw[n][1], score |-> score_out.raw[n][5]]]

RecRanking ==
    [n \in 1..Len(score_out.recs) |->
        [id |-> score_out.recs[n].book_id, score |-> score_out.recs[n].score]]

StableDescending(list) ==
    \A m, n \in 1..Len(list) :
        m < n =>
            /\ ~Higher(list[n].score, list[m].score)
            /\ ~Higher(list[m].score, list[n].score)
                  => PosInCatalog(list[m].id) < PosInCatalog(list[n].id)

\* C17: a user's list, raw and formatted, is in non-increasing order of
\* score, and entries of equal score are in catalog order.
C17_SortedStably ==
    Scored => StableDescending(RawRanking) /\ StableDescending(RecRanking)

C17_Witness ==
    /\ Scored
    /\ \E m, n \in 1..Len(score_out.recs) :
           /\ m < n
           /\ score_out.recs[m].score = score_out.recs[n].score
    /\ \E m, n \in 1..Len(score_out.recs) :
           /\ m < n
           /\ Higher(score_out.recs[m].score, score_out.recs[n].score)
           /\ PosInCatalog(score_out.recs[m].book_id)
                  > PosInCatalog(score_out.recs[n].book_id)

\* The catalog books the user has not rated.
NotRated ==
    {b \in Range(score_in.books) :
        b.id \notin RatedIds(score_in.user_id, score_in.ratings)}

Recommended == {score_out.recs[n].book_id : n \in 1..Len(score_out.recs)}

\* No book left out outranks a book of the list.
HighestRanked ==
    \A b \in NotRated :
        b.id \notin Recommended =>
            \A n \in 1..Len(score_out.recs) :
                LET r == score_out.recs[n]
                    score == final_score(b, calculate_user_profile(
                                 score_in.user_id, score_in.ratings, score_in.books),
                                 score_in.ratings)
                IN  \/ Higher(r.score, score)
                    \/ /\ ~Higher(score, r.score)
                       /\ PosInCatalog(r.book_id) < PosInCatalog(b.id)

\* C18 as claimed: a successful computation returns exactly
\* min(k, number of unrated catalog books) recommendations, the highest
\* ranked ones.
C18_AsClaimed ==
    Scored =>
        /\ Len(score_out.recs) = Min(score_in.k, Cardinality(NotRated))
        /\ HighestRanked

\* C18 amended: it returns exactly min(k, 10, number of unrated catalog
\* books) recommendations, the highest ranked ones.
C18_TruncatedToKAndTen ==
    Scored =>
        /\ Len(score_out.recs) = Min(Min(score_in.k, 10), Cardinality(NotRated))
        /\ Cardinality(Recommended) = Len(score_out.recs)
        /\ Recommended \subseteq {b.id : b \in NotRated}
        /\ HighestRanked

C18_Witness ==
    /\ Scored
    /\ score_in.k = 11
    /\ Cardinality(NotRated) = 11
    /\ Len(score_out.recs) = 10

\* C19: when every rating value lies in 1..5, every score returned lies in
\* [0, 1].
C19_ScoreInUnitInterval ==
    (Scored /\ \A r \in Range(score_in.ratings) : r.value \in 1..5) =>
        \A n \in 1..Len(score_out.recs) :
            LET score == score_out.recs[n].score
            IN  /\ score[2] > 0
                /\ 0 <= score[1]
                /\ score[1] <= score[2]

C19_Witness ==
    /\ Scored
    /\ \A r \in Range(score_in.ratings) : r.value \in 1..5
    /\ \E n \in 1..Len(score_out.recs) : score_out.recs[n].score = <<1, 1>>
    /\ \E n \in 1..Len(score_out.recs) : score_out.recs[n].score = <<0, 1>>

\* The user id occurs in no rating of the batch's dataset.
InNoRating(u) ==
    \A r \in Range(Datasets[batch.ds].ratings) : r.user_id # u

\* Every rating of the batch's dataset holds a value in 1..5.
WellFormed ==
    \A r \in Range(Datasets[batch.ds].ratings) : r.value \in 1..5

C24_ShutdownDrains ==
    [][/\ (executor_shut' /\ ~executor_shut) => tasks' = tasks
       /\ (executor_shut /\ batch.pc = "waiting") =>
              \A n \in 1..Len(batch.user_ids) :
                  \E i \in LiveTasks : tasks[i].idx = n
       /\ (_shutdown' /\ ~_shutdown) =>
              /\ Pending = {} /\ Running = {}
              /\ batch.pc = "waiting" =>
                     Cardinality(LiveDone) = Len(batch.user_ids)
       /\ (executor_shut /\ batch.pc = "waiting" /\ batch'.pc = "returned") =>
              DOMAIN batch'.results = BatchUsers]_vars

\* shutdown() began while two work items of a batch were queued or running
\* and returned before the batch did.
C24_Witness ==
    /\ _shutdown
    /\ batch.pc = "waiting"
    /\ Len(batch.user_ids) = 3
    /\ Cardinality(LiveDone) = 3
    /\ misses = 3

\* The positions of user_ids whose per-user computation raises.
RaisingPositions ==
    {n \in 1..Len(batch.user_ids) : Fails(batch.user_ids[n], batch.ds)}

\* C25: at the end of every batch the number of users counted as failed is
\* the number of users whose computation raised, and the number counted as
\* successful is the number of the other users.
C25_TallyCountsRaisingUsers ==
    (batch.pc = "returned" /\ batch.user_ids # <<>>) =>
        /\ batch.failed_users = Cardinality(RaisingPositions)
        /\ batch.successful_users =
               Len(batch.user_ids) - Cardinality(RaisingPositions)

\* The step in which recommend_batch raises the timeout error.
TimesOut == batch.pc = "waiting" /\ batch'.pc = "raised" /\ batch'.error = "timeout"

\* The step in which a work item that nobody awaits any more, i, ends.
OrphanEnds(i) ==
    /\ i \in Running
    /\ ~tasks[i].live
    /\ tasks' = RemoveAt(tasks, i)

\* C27: the timeout error stops no work item that has started and leaves
\* the engine running: every such item is still running after the error,
\* ends later with its result in the cache (a computation that raises has
\* none), and a recommend_batch call made after the error is accepted.
C27_TimeoutStopsNothing ==
    [][/\ TimesOut =>
              /\ \A i \in Running : \E j \in 1..Len(tasks') :
                     /\ tasks'[j] = Orphan(tasks[i])
                     /\ tasks'[j].st = "computing"
              /\ UNCHANGED <<_shutdown, executor_shut, cache, hits, misses>>
       /\ \A i \in TaskIdx :
              (OrphanEnds(i) /\ ~Fails(tasks[i].user_id, tasks[i].ds)) =>
                  \E j \in 1..Len(cache') :
                      /\ cache'[j].key = KeyOf(tasks[i].user_id, tasks[i].ds)
                      /\ cache'[j].result =
                             recommend_body(tasks[i].user_id,
                                            Datasets[tasks[i].ds].ratings,
                                            Datasets[tasks[i].ds].books)
       /\ (batch.pc = "raised" /\ batch.error = "timeout"
              /\ ~executor_shut /\ started' # started) =>
              batch'.pc \in {"submitting", "returned"}]_vars

\* After the timeout error the cache has grown by two entries and the miss
\* count by one, with the engine still running.
C27_Witness ==
    /\ batch.pc = "raised" /\ batch.error = "timeout"
    /\ Len(cache) = batch.size_then + 2
    /\ misses = batch.misses_then + 1
    /\ tasks = <<>>
    /\ ~_shutdown

\* C28: however shutdown() interleaves with a recommend_batch call, the call
\* ends, and it ends either raising or returning a mapping with an entry
\* for every requested user.
C28_AllOrNothing ==
    /\ [](batch.pc = "returned" =>
              \A n \in 1..Len(batch.user_ids) :
                  batch.user_ids[n] \in DOMAIN batch.results)
    /\ (InFlight ~> batch.pc \in {"returned", "raised"})

\* The pool was shut between two submissions of a batch of three: the call
\* raised with work items of its own left in the pool.
C28_Witness ==
    /\ batch.pc = "raised" /\ batch.error = "executor"
    /\ Len(batch.user_ids) = 3
    /\ tasks # <<>>
    /\ \E c \in ShutCallers : shut_pc[c] = "draining"

\* C29: when recommend_for_user_uncached returns from a call during which
\* nobody else touched the cache, the cache holds the entry of the call's
\* key and no other, hits is 0 and misses is 1, whatever the cache held
\* before; the value returned is what the cached function computes for the
\* same arguments.
C29_UncachedResetsWholeCache ==
    (uncached.pc = "returned" /\ uncached.alone) =>
        /\ uncached.after.keys = {KeyOf(uncached.user_id, uncached.ds)}
        /\ uncached.after.size = 1
        /\ uncached.after.hits = 0
        /\ uncached.after.misses = 1
        /\ uncached.value =
               recommend_body(uncached.user_id, Datasets[uncached.ds].ratings,
                              Datasets[uncached.ds].books)

\* The call found a full cache.
C29_Witness ==
    /\ uncached.pc = "returned" /\ uncached.alone
    /\ uncached.before = maxsize
    /\ uncached.after.size = 1
    /\ uncached.value # <<>>

\* C21: when benchmark_recommendations returns with status 'completed' or
\* 'failed' (recommend_batch raised), the engine it constructed is shut
\* down, its pool with it, and no work item is left; with empty user_ids it
\* returns 'skipped', having constructed no engine and touched none.
C21_EngineAlwaysReleased ==
    /\ [](bench.pc = "returned" =>
              /\ bench.status \in {"completed", "failed", "skipped"}
              /\ bench.status = "skipped" <=> bench.user_ids = <<>>
              /\ bench.status = "failed" => batch.pc = "raised"
              /\ bench.status \in {"completed", "failed"} =>
                     /\ bench.created
                     /\ _shutdown /\ executor_shut
                     /\ pool_shutdowns = 1
                     /\ tasks = <<>>
              /\ bench.status = "skipped" => ~bench.created)
    /\ [][(bench'.pc = "returned" /\ bench'.status = "skipped") =>
              UNCHANGED <<engineVars, tasks, batch>>]_vars

\* A call whose recommend_batch raised has returned 'failed', after a call
\* that returned.
C21_Witness ==
    /\ bench.pc = "returned"
    /\ bench.status = "failed"
    /\ bench.made = 2
    /\ _shutdown

\* A benchmark over distinct user ids, no more of them than the cache
\* holds, has completed its two passes with nobody else touching the cache.
QuietBenchmark ==
    /\ bench.pc \in {"finally", "returned"}
    /\ bench.status = "completed"
    /\ bench.quiet
    /\ Cardinality(Range(bench.user_ids)) = Len(bench.user_ids)
    /\ Len(bench.user_ids) <= maxsize

AllHits ==
    /\ bench.scored = 0
    /\ bench.serial_hits = Len(bench.user_ids)
    /\ bench.serial_misses = 0
    /\ bench.results_consistent

\* C30 as claimed: in such a benchmark the serial pass runs the scoring
\* body for no user, each of its lookups is a hit, none a miss, and
\* results_consistent is true.
C30_AsClaimed == QuietBenchmark => AllHits

\* C30 amended: the same, provided the scoring of no user of the benchmark
\* raises; for a user whose scoring raises the serial pass counts a miss
\* and runs the body again, and results_consistent is true all the same.
C30_SerialPassIsAllHits ==
    /\ (QuietBenchmark /\ \A u \in Range(bench.user_ids) : ~Fails(u, bench.ds))
           => AllHits
    /\ QuietBenchmark =>
           /\ bench.results_consistent
           /\ bench.scored = bench.serial_misses
           /\ bench.serial_misses =
                  Cardinality({u \in Range(bench.user_ids) : Fails(u, bench.ds)})

\* The second benchmark of two users found the cache holding other entries.
C30_Witness ==
    /\ QuietBenchmark
    /\ Len(bench.user_ids) = 2
    /\ bench.serial_hits = 2
    /\ bench.made = 2
    /\ misses > 2

\* The tier the documentation gives a user with n ratings.
TierOf(n) == IF n >= 10 THEN "high" ELSE IF n >= 5 THEN "medium" ELSE "low"

\* C22: in the statistics of a report every user of user_ids is counted in
\* exactly one activity tier, the one of that user's number of ratings
\* (ten or more high, five to nine medium, fewer low, none included), so
\* the three counts add up to the number of users in the batch.
C22_EveryUserInOneTier ==
    (agg_in.pc = "call" /\ agg_in.kind = "statistics" /\ agg_out.pc = "done") =>
        LET levels == agg_out.value.user_activity_levels
            InTier(tier) ==
                Cardinality({n \in 1..Len(agg_in.user_ids) :
                    TierOf(RatingCount(agg_in.user_ids[n], agg_in.ratings)) = tier})
        IN  /\ levels.high = InTier("high")
            /\ levels.medium = InTier("medium")
            /\ levels.low = InTier("low")
            /\ levels.high + levels.medium + levels.low = Len(agg_in.user_ids)

\* The users of a map whose list holds something.
Served == {i \in 1..Len(agg_in.items) : Len(agg_in.items[i].recs) > 0}

\* C23: _analyze_recommendation_quality reports the success rate (users
\* with a non-empty list) / (users in the map), which is exactly 2/3 for
\* three users of whom one has an empty list; for an empty map it reports
\* success rate 0, average score 0, genre diversity 0 and no top books.
C23_SuccessRateIsServedFraction ==
    (agg_in.pc = "call" /\ agg_in.kind = "quality" /\ agg_out.pc = "done") =>
        LET q == agg_out.value
            users == Len(agg_in.items)
        IN  /\ (users > 0) =>
                  (/\ q.success_rate[1] * users = Cardinality(Served) * q.success_rate[2]
                   /\ q.success_rate[2] > 0)
            /\ (users = 3 /\ Cardinality(Served) = 2) => (q.success_rate = <<2, 3>>)
            /\ (users = 0) =>
                  (/\ q.success_rate = <<0, 1>>
                   /\ q.average_score = <<0, 1>>
                   /\ q.genre_diversity = 0
                   /\ q.top_recommended_books = <<>>)

\* Three users, one of them with an empty list, have been analysed.
C23_Witness ==
    /\ agg_in.pc = "call" /\ agg_in.kind = "quality" /\ agg_out.pc = "done"
    /\ Len(agg_in.items) = 3
    /\ Cardinality(Served) = 2
    /\ agg_out.value.success_rate = <<2, 3>>

\* What C26 says of one step: a failing call appends nothing, a returning
\* one appends its report, emptying an obtained list changes no history.
HistoryStep ==
    /\ (service.pc = "batch" /\ service'.pc = "raised") =>
           (service'.performance_history = service.performance_history)
    /\ (service.pc = "batch" /\ service'.pc = "returned") =>
           (/\ Len(service'.performance_history) =
                  Len(service.performance_history) + 1
            /\ SubSeq(service'.performance_history, 1,
                      Len(service.performance_history)) =
                  service.performance_history)
    /\ (~service.emptied /\ service'.emptied) =>
           (service'.performance_history = service.performance_history)

\* C26: the history holds, in the order they returned, the reports of the
\* generate_parallel_report calls that returned since the latest
\* clear_history and nothing else; a call that fails appends nothing; and
\* emptying a list obtained from get_performance_history leaves the
\* service's history as it was.
C26_HistoryIsTheReturnedReports ==
    /\ [](/\ Len(service.performance_history) = Len(service.returned)
          /\ \A i \in 1..Len(service.returned) :
                 service.performance_history[i].call = service.returned[i])
    /\ [][HistoryStep]_vars

\* A call has failed after another returned a report, the history holds
\* that one report, and the caller has emptied its copy of it.
C26_Witness ==
    /\ service.pc = "raised"
    /\ Len(service.performance_history) = 1
    /\ service.made = 2
    /\ service.emptied
====
